---- MODULE Spec2Model ----
(***************************************************************************)
(* Model of pg-sweep-stats (src/src/lib.rs): the two SQL-callable          *)
(* collectors collect_database_stats and collect_table_stats, the scalar   *)
(* extractors query_single_value / query_single_value_float, and the       *)
(* instrumentation source (SPI) they query.                                *)
(*                                                                         *)
(* The source is the environment: what it answers to a query is drawn      *)
(* from bounded sets.  An answer to a scalar query is a record             *)
(*   [kind |-> "error" | "empty" | "null" | "value", v |-> number]         *)
(* "error": SPI raises (the select never returns); "empty": a result set   *)
(* of zero rows; "null": one row whose first column is NULL; "value": one  *)
(* row whose first column is v.                                            *)
(***************************************************************************)
EXTENDS Integers, Sequences, FiniteSets, TLC

VARIABLES
    now,          \* the wall clock (SystemTime::now), in ticks since the epoch
    dpc,          \* collect_database_stats: "idle", "running", "returned", "failed"
    calledAt,     \* the wall clock reading the running invocation took
    stats,        \* the DatabaseStats literal under construction: field -> value
    issued,       \* the queries this invocation has sent, each with its answer
    dbResult,     \* the Json<DatabaseStats> handed back: {} or {snapshot}
    history,      \* [at, timestamp] of every snapshot returned so far
    tableSource,  \* what SPI answers to the per-table query
    tpc,          \* collect_table_stats: "idle", "iterating", "returned", "failed"
    pos,          \* the number of rows the for loop has consumed
    table_stats,  \* the HashMap under construction: key -> TableStats
    tableResult   \* the Json<HashMap> handed back: {} or {map}

dbVars    == <<now, dpc, calledAt, stats, issued, dbResult, history>>
tableVars == <<tableSource, tpc, pos, table_stats, tableResult>>
vars      == <<now, dpc, calledAt, stats, issued, dbResult, history,
               tableSource, tpc, pos, table_stats, tableResult>>

----------------------------------------------------------------------------
(* Bounds of the model. *)

\* The wall clock takes the readings 0..MaxClock.
MaxClock == 3
\* Ticks of the wall clock per second (as_secs drops the sub-second part).
TicksPerSec == 2
\* How many of one invocation's answers may differ from the usual reading.
MaxAnomalies == 2
\* Rows in one result set of the per-table query.
MaxRows == 2

----------------------------------------------------------------------------
(* Small helpers. *)

EmptyFn == [x \in {} |-> 0]

Put(f, k, v) == [x \in DOMAIN f \cup {k} |-> IF x = k THEN v ELSE f[x]]

Range(s) == {s[i] : i \in DOMAIN s}

----------------------------------------------------------------------------
(* The database-wide collector. *)

\* struct DatabaseStats, in declaration (= evaluation) order.
DbFields ==
    << "timestamp", "total_connections", "active_connections",
       "idle_connections", "total_transactions", "commits", "rollbacks",
       "blocks_read", "blocks_hit", "tuples_returned", "tuples_fetched",
       "tuples_inserted", "tuples_updated", "tuples_deleted", "temp_files",
       "temp_bytes", "deadlocks", "block_read_time", "block_write_time" >>

\* The query texts with the filter of active_connections left out.
DbQueryUnfiltered ==
    [f \in { "total_connections", "active_connections", "idle_connections",
             "total_transactions", "commits", "rollbacks", "blocks_read",
             "blocks_hit", "tuples_returned", "tuples_fetched",
             "tuples_inserted", "tuples_updated", "tuples_deleted",
             "temp_files", "temp_bytes", "deadlocks", "block_read_time",
             "block_write_time" } |->
        IF f \in {"total_connections", "active_connections"}
        THEN "count(*) FROM pg_stat_activity" ELSE f]

\* The fixed query text behind each metric field (abbreviated to what it selects).
DbQuery ==
    [ total_connections  |-> "count(*) FROM pg_stat_activity",
      active_connections |-> "count(*) FROM pg_stat_activity WHERE state = 'active'",
      idle_connections   |-> "count(*) FROM pg_stat_activity WHERE state = 'idle'",
      total_transactions |-> "xact_commit + xact_rollback",
      commits            |-> "xact_commit",
      rollbacks          |-> "xact_rollback",
      blocks_read        |-> "blks_read",
      blocks_hit         |-> "blks_hit",
      tuples_returned    |-> "tup_returned",
      tuples_fetched     |-> "tup_fetched",
      tuples_inserted    |-> "tup_inserted",
      tuples_updated     |-> "tup_updated",
      tuples_deleted     |-> "tup_deleted",
      temp_files         |-> "temp_files",
      temp_bytes         |-> "temp_bytes",
      deadlocks          |-> "deadlocks",
      block_read_time    |-> "blk_read_time",
      block_write_time   |-> "blk_write_time" ]

MetricFields == DOMAIN DbQuery

\* The two fields extracted with query_single_value_float.
FloatFields == {"block_read_time", "block_write_time"}

\* Readings the source reports: cumulative counters and counts, never negative.
Readings == {0, 3, 7, 10}
UsualReading(f) ==
    IF f = "total_connections" THEN 10
    ELSE IF f = "active_connections" THEN 3
    ELSE 7

Answer(k, v) == [kind |-> k, v |-> v]
Answers ==
    {Answer("error", 0), Answer("empty", 0), Answer("null", 0)}
        \cup {Answer("value", v) : v \in Readings}
UsualAnswer(f) == Answer("value", UsualReading(f))

\* The sub-second part of a reading, where the whole seconds were meant.
subsec_ticks(t) == t % TicksPerSec

\* SystemTime::now().duration_since(UNIX_EPOCH).unwrap().as_secs()
as_secs(t) == t \div TicksPerSec

\* A select whose failure is swallowed.
select_never_raises(a) == FALSE

\* A select that also raises on a result set of zero rows.
select_raises_on_no_rows(a) == a.kind = "error" \/ a.rows = << >>

\* client.select(query, None, None): SPI raises when the query is rejected or
\* cannot be run, and the function is left at once.
select_raises(a) == a.kind = "error"

\* client.select(query).first().get_one::<T>(): Err when the cursor is on no
\* row (InvalidPosition), Ok(None) for a NULL datum, Ok(Some(v)) otherwise.
get_one(a) ==
    IF a.kind = "empty" THEN [ok |-> FALSE, some |-> FALSE, v |-> 0]
    ELSE IF a.kind = "null" THEN [ok |-> TRUE, some |-> FALSE, v |-> 0]
    ELSE [ok |-> TRUE, some |-> TRUE, v |-> a.v]

\* A default that marks the absent value.
unwrap_or_minus_one(r) == IF r.some THEN r.v ELSE -1

\* Option::unwrap_or(0) / unwrap_or(0.0)
unwrap_or_zero(r) == IF r.some THEN r.v ELSE 0

\* query_single_value and query_single_value_float on an answer the select
\* returned: [panics, value].  Result::unwrap panics on Err.
query_single_value(a) ==
    LET r == get_one(a)
    IN  [panics |-> ~r.ok, value |-> IF r.ok THEN unwrap_or_zero(r) ELSE 0]

\* The field the struct literal evaluates next.
NextField == DbFields[Len(issued) + 2]

AnomaliesSoFar ==
    Cardinality({i \in DOMAIN issued : issued[i].answer # UsualAnswer(DbFields[i + 1])})

\* What the source may answer to the next query: anything, until MaxAnomalies
\* answers of this invocation were unusual.
AnyAnswer ==
    IF AnomaliesSoFar < MaxAnomalies THEN Answers ELSE {UsualAnswer(NextField)}

\* While the wall clock moves: the usual reading, or an answer that ends the
\* invocation.
ClockAnswer ==
    {Answer("error", 0), Answer("empty", 0), UsualAnswer(NextField)}

\* Spi::connect, then the first field of the literal: the timestamp.
DbBegin ==
    /\ dpc = "idle"
    /\ dpc' = "running"
    /\ calledAt' = now
    /\ stats' = Put(EmptyFn, DbFields[1], as_secs(now))
    /\ issued' = << >>
    /\ dbResult' = {}
    /\ UNCHANGED <<now, history>>

\* One metric field of the literal: the select and the extraction of its value.
DbExtract(answers) ==
    /\ dpc = "running"
    /\ Len(issued) + 1 < Len(DbFields)
    /\ \E a \in answers :
        /\ issued' = Append(issued, [query |-> DbQuery[NextField], answer |-> a])
        /\ \/ /\ select_raises(a)
              /\ dpc' = "failed"
              /\ UNCHANGED stats
           \/ /\ ~select_raises(a)
              /\ query_single_value(a).panics
              /\ dpc' = "failed"
              /\ UNCHANGED stats
           \/ /\ ~select_raises(a)
              /\ ~query_single_value(a).panics
              /\ stats' = Put(stats, NextField, query_single_value(a).value)
              /\ UNCHANGED dpc
    /\ UNCHANGED <<now, calledAt, dbResult, history>>

\* Ok(Json(stats)), through Spi::connect(..).unwrap().
DbReturn ==
    /\ dpc = "running"
    /\ Len(issued) + 1 = Len(DbFields)
    /\ dpc' = "returned"
    /\ dbResult' = {stats}
    /\ history' = history \cup {[at |-> calledAt, timestamp |-> stats["timestamp"]]}
    /\ UNCHANGED <<now, calledAt, stats, issued>>

\* The caller invokes the function again: everything is built afresh.
DbAgain ==
    /\ dpc \in {"returned", "failed"}
    /\ dpc' = "idle"
    /\ stats' = EmptyFn
    /\ issued' = << >>
    /\ dbResult' = {}
    /\ UNCHANGED <<now, calledAt, history>>

\* The wall clock moves; it is not monotonic (it can be set back).
Tick ==
    /\ \E t \in 0..MaxClock : t # now /\ now' = t
    /\ UNCHANGED <<dpc, calledAt, stats, issued, dbResult, history>>

----------------------------------------------------------------------------
(* The per-table collector. *)

\* struct TableStats: each field and the column of pg_stat_user_tables the
\* row loop reads into it.
TableColumn ==
    [ sequential_scans     |-> "seq_scan",
      sequential_rows_read |-> "seq_tup_read",
      index_scans          |-> "idx_scan",
      index_rows_fetched   |-> "idx_tup_fetch",
      rows_inserted        |-> "n_tup_ins",
      rows_updated         |-> "n_tup_upd",
      rows_deleted         |-> "n_tup_del",
      live_rows            |-> "n_live_tup",
      dead_rows            |-> "n_dead_tup",
      heap_blocks_read     |-> "heap_blks_read",
      heap_blocks_hit      |-> "heap_blks_hit",
      index_blocks_read    |-> "idx_blks_read",
      index_blocks_hit     |-> "idx_blks_hit" ]

TableFields == DOMAIN TableColumn
Columns == {TableColumn[f] : f \in TableFields}

\* A datum of a row: NULL, or a value (a name is a sequence of characters).
Null(zero) == [null |-> TRUE, v |-> zero]
Some(v) == [null |-> FALSE, v |-> v]

\* Identifiers, as sequences of characters: a, aa, and a with a dot after or
\* before it (a quoted identifier may hold dots).
Names == {<<"a">>, <<"a", "a">>, <<"a", ".">>, <<".", "a">>}
NameData == {Null(<< >>)} \cup {Some(n) : n \in Names}

\* The counters a table usually shows, one value per column.
UsualCount ==
    [ seq_scan |-> 5, seq_tup_read |-> 120, idx_scan |-> 9, idx_tup_fetch |-> 40,
      n_tup_ins |-> 30, n_tup_upd |-> 20, n_tup_del |-> 10,
      n_live_tup |-> 1000, n_dead_tup |-> 50,
      heap_blks_read |-> 60, heap_blks_hit |-> 900,
      idx_blks_read |-> 70, idx_blks_hit |-> 800 ]

\* The counter columns of a row: those in nulls are NULL, the others show the
\* usual count plus d.
Counters(nulls, d) ==
    [c \in Columns |-> IF c \in nulls THEN Null(0) ELSE Some(UsualCount[c] + d)]

\* Which columns of one row are NULL: none, any single one, or all of them.
NullSets == {{}} \cup {{c} : c \in Columns} \cup {Columns}

Row(schema, rel, cols) == [schemaname |-> schema, relname |-> rel, cols |-> cols]

\* Rows that vary in their identifiers.
KeyRows == {Row(s, t, Counters({}, 0)) : s \in NameData, t \in NameData}

\* Rows that vary in their counters; the i-th table of schema "a".
NthName(i) == [j \in 1..i |-> "a"]
CounterRows(i) ==
    {Row(Some(<<"a">>), Some(NthName(i)), Counters(n, d)) : n \in NullSets, d \in {0, 1}}

\* (schemaname, relname) is unique in pg_stat_user_tables.
DistinctTables(rows) ==
    \A i, j \in DOMAIN rows :
        i # j => <<rows[i].schemaname, rows[i].relname>>
                    # <<rows[j].schemaname, rows[j].relname>>

\* The result sets of n rows whose i-th row is one of CounterRows(i).
RECURSIVE CounterResultSets(_)
CounterResultSets(n) ==
    IF n = 0 THEN {<< >>}
    ELSE {Append(rows, r) : rows \in CounterResultSets(n - 1), r \in CounterRows(n)}

\* The result sets of at most max rows.
ResultSets(max) ==
    {rows \in UNION {[1..n -> KeyRows] : n \in 0..max} : DistinctTables(rows)}
        \cup UNION {CounterResultSets(n) : n \in 1..max}

\* What SPI may answer to the per-table query.
TableAnswers(max) ==
    {[kind |-> "error", rows |-> << >>]}
        \cup {[kind |-> "rows", rows |-> rows] : rows \in ResultSets(max)}

\* A key without the separating dot.
format_key_unseparated(schema, table) == schema \o table

\* format!("{}.{}", schema, table)
format_key(schema, table) == schema \o <<".">> \o table

\* row.get_by_name(col).unwrap().unwrap(): panics on a NULL datum.
unwrap_panics(datum) == datum.null

\* A row loop that defaults the identifying columns instead of unwrapping them.
row_panics_on_counters_only(row) ==
    \E f \in DOMAIN row.cols : row.cols[f].null

\* Does reading the row into a key and a TableStats panic?
row_panics(row) ==
    \/ unwrap_panics(row.schemaname)
    \/ unwrap_panics(row.relname)
    \/ \E f \in TableFields : unwrap_panics(row.cols[TableColumn[f]])

\* The TableStats literal built from a row none of whose reads panics.
table_stats_of(row) == [f \in TableFields |-> row.cols[TableColumn[f]].v]

\* The row the for loop is at.
CurrentRow == tableSource.rows[pos + 1]

\* Spi::connect, HashMap::new(), client.select(..): SPI raises when the query
\* is rejected.
TableSelect ==
    /\ tpc = "idle"
    /\ table_stats' = EmptyFn
    /\ pos' = 0
    /\ tableResult' = {}
    /\ \/ /\ select_raises(tableSource)
          /\ tpc' = "failed"
       \/ /\ ~select_raises(tableSource)
          /\ tpc' = "iterating"
    /\ UNCHANGED tableSource

\* One turn of `for row in results`.
TableRow ==
    /\ tpc = "iterating"
    /\ pos < Len(tableSource.rows)
    /\ \/ /\ row_panics(CurrentRow)
          /\ tpc' = "failed"
          /\ UNCHANGED <<pos, table_stats>>
       \/ /\ ~row_panics(CurrentRow)
          /\ table_stats' =
                Put(table_stats,
                    format_key(CurrentRow.schemaname.v, CurrentRow.relname.v),
                    table_stats_of(CurrentRow))
          /\ pos' = pos + 1
          /\ UNCHANGED tpc
    /\ UNCHANGED <<tableSource, tableResult>>

\* Ok(Json(table_stats)), through Spi::connect(..).unwrap().
TableReturn ==
    /\ tpc = "iterating"
    /\ pos = Len(tableSource.rows)
    /\ tpc' = "returned"
    /\ tableResult' = {table_stats}
    /\ UNCHANGED <<tableSource, pos, table_stats>>

----------------------------------------------------------------------------
(* Specifications. *)

DbIdle ==
    /\ dpc = "idle"
    /\ calledAt = 0
    /\ stats = EmptyFn
    /\ issued = << >>
    /\ dbResult = {}
    /\ history = {}

TableIdle ==
    /\ tpc = "idle"
    /\ pos = 0
    /\ table_stats = EmptyFn
    /\ tableResult = {}

NoTables == [kind |-> "rows", rows |-> << >>]

\* One invocation of collect_database_stats, against any source.
InitDb == now = MaxClock /\ DbIdle /\ tableSource = NoTables /\ TableIdle

NextDb ==
    \/ DbBegin /\ UNCHANGED tableVars
    \/ DbExtract(AnyAnswer) /\ UNCHANGED tableVars
    \/ DbReturn /\ UNCHANGED tableVars

SpecDb == InitDb /\ [][NextDb]_vars

\* Invocations of collect_database_stats one after the other, under a wall
\* clock that moves.
InitClock == now \in 0..MaxClock /\ DbIdle /\ tableSource = NoTables /\ TableIdle

NextClock ==
    \/ DbBegin /\ UNCHANGED tableVars
    \/ DbExtract(ClockAnswer) /\ UNCHANGED tableVars
    \/ DbReturn /\ UNCHANGED tableVars
    \/ DbAgain /\ UNCHANGED tableVars
    \/ Tick /\ UNCHANGED tableVars

SpecClock == InitClock /\ [][NextClock]_vars

\* One invocation of collect_table_stats, against any answer of the source.
InitTable == now = MaxClock /\ DbIdle /\ tableSource \in TableAnswers(MaxRows) /\ TableIdle

NextTable ==
    \/ TableSelect /\ UNCHANGED dbVars
    \/ TableRow /\ UNCHANGED dbVars
    \/ TableReturn /\ UNCHANGED dbVars

SpecTable == InitTable /\ [][NextTable]_vars

\* The whole program: both collectors, invoked again and again, under a wall
\* clock that moves.
Init == now \in 0..MaxClock /\ DbIdle /\ tableSource \in TableAnswers(MaxRows) /\ TableIdle

Next == NextDb \/ NextClock \/ NextTable

Spec == Init /\ [][Next]_vars

----------------------------------------------------------------------------
(* Properties of collect_database_stats. *)

\* The field the i-th query of an invocation fills.
FieldOf(i) == DbFields[i + 1]

\* The i-th extraction of this invocation came to a value.
Extracted(i) ==
    /\ issued[i].answer.kind # "error"
    /\ ~query_single_value(issued[i].answer).panics

\* The i-th extraction is the one that ended this invocation.
EndedBy(i) == dpc = "failed" /\ i = Len(issued)

\* C2: every metric query that runs and comes back with zero rows, or with
\* one row whose column is NULL, is extracted as 0 without failing, and the
\* field of the snapshot is that 0.
C2_AbsenceBecomesZero ==
    \A i \in DOMAIN issued :
        issued[i].answer.kind \in {"empty", "null"} =>
            /\ ~EndedBy(i)
            /\ FieldOf(i) \in DOMAIN stats
            /\ stats[FieldOf(i)] = 0
            /\ \A snap \in dbResult : snap[FieldOf(i)] = 0

\* C4: an invocation ends in one of two ways.  Either all 18 extractions came
\* to a value and the snapshot returned holds all 19 fields, or one extraction
\* failed, it is the last query sent, and nothing is returned.  No snapshot is
\* handed out before that, and no query is sent twice.
C4_AllOrNothing ==
    /\ dpc = "returned" =>
          /\ Len(issued) = Cardinality(MetricFields)
          /\ \A i \in DOMAIN issued : Extracted(i)
          /\ dbResult = {stats}
          /\ DOMAIN stats = Range(DbFields)
          /\ Cardinality(DOMAIN stats) = Len(DbFields)
    /\ dpc = "failed" =>
          /\ dbResult = {}
          /\ Len(issued) >= 1
          /\ ~Extracted(Len(issued))
          /\ \A i \in 1..(Len(issued) - 1) : Extracted(i)
    /\ dpc \in {"idle", "running"} => dbResult = {}
    /\ dpc = "running" => \A i \in DOMAIN issued : Extracted(i)
    /\ \A i, j \in DOMAIN issued : i # j => issued[i].query # issued[j].query

\* Witness of C4: the last of the 18 queries is rejected after 17 values were
\* extracted: the 18 fields built so far are dropped.
C4_Witness ==
    /\ dpc = "failed"
    /\ Len(issued) = Cardinality(MetricFields)
    /\ issued[Len(issued)].answer.kind = "error"
    /\ Cardinality(DOMAIN stats) = Len(DbFields) - 1
    /\ dbResult = {}

\* C8: in a returned snapshot every metric field holds the value the source
\* reported to that field's own query, whatever the other fields hold.
C8_PassThrough ==
    dpc = "returned" =>
        \A snap \in dbResult : \A f \in MetricFields :
            /\ \E i \in DOMAIN issued : issued[i].query = DbQuery[f]
            /\ \A i \in DOMAIN issued :
                  (issued[i].query = DbQuery[f] /\ issued[i].answer.kind = "value")
                      => snap[f] = issued[i].answer.v

\* Witness of C8: the source reports total 10, active 3 and idle 3, which do
\* not add up, and the snapshot says the same.
C8_Witness ==
    /\ dpc = "returned"
    /\ issued[1].answer = Answer("value", 10)
    /\ issued[2].answer = Answer("value", 3)
    /\ issued[3].answer = Answer("value", 3)
    /\ \E snap \in dbResult :
          /\ snap["total_connections"] = 10
          /\ snap["active_connections"] = 3
          /\ snap["idle_connections"] = 3

\* C9: in a returned snapshot total_connections, and every other integer
\* field, is >= 0, also where a NULL was resolved to the default.
C9_NonNegative ==
    dpc = "returned" =>
        \A snap \in dbResult : \A f \in DOMAIN snap \ FloatFields :
            snap[f] \in Nat

\* Witness of C9: a snapshot is returned in which total_connections was NULL
\* at the source.
C9_Witness ==
    /\ dpc = "returned"
    /\ issued[1].answer.kind = "null"
    /\ \E snap \in dbResult : snap["total_connections"] >= 0

\* C7: of any two snapshots returned, the one whose invocation read the
\* earlier wall clock has the smaller or equal timestamp; the timestamp is
\* the whole seconds of the one reading taken before the first query, and
\* stays that while the queries run.
C7_TimestampOrder ==
    /\ \A a, b \in history : a.at <= b.at => a.timestamp <= b.timestamp
    /\ dpc \in {"running", "returned"} =>
          /\ "timestamp" \in DOMAIN stats
          /\ stats["timestamp"] = as_secs(calledAt)
    /\ \A snap \in dbResult : snap["timestamp"] = as_secs(calledAt)
    /\ \A a \in history : a.timestamp = as_secs(a.at)

\* Witness of C7: two snapshots a second apart were returned, and the clock
\* reached another second while the last one's queries ran.
C7_Witness ==
    /\ dpc = "returned"
    /\ as_secs(now) # as_secs(calledAt)
    /\ \E snap \in dbResult : snap["timestamp"] # as_secs(now)
    /\ \E a, b \in history : a.at < b.at /\ a.timestamp < b.timestamp

----------------------------------------------------------------------------
(* Properties of collect_table_stats. *)

Rows == tableSource.rows

WellIdentified(row) == ~row.schemaname.null /\ ~row.relname.null

KeyOf(row) == format_key(row.schemaname.v, row.relname.v)

HasDot(name) == \E i \in DOMAIN name : name[i] = "."

\* C1: when every row names its schema and table, a NULL counter column does
\* not make the call fail; the map returned holds 0 for it and the row's other
\* counters unchanged.
C1_NullCounterBecomesZero ==
    (tableSource.kind = "rows" /\ \A i \in DOMAIN Rows : WellIdentified(Rows[i])) =>
        /\ tpc # "failed"
        /\ \A map \in tableResult : \A i \in DOMAIN Rows : \A f \in TableFields :
              LET datum == Rows[i].cols[TableColumn[f]]
              IN  /\ KeyOf(Rows[i]) \in DOMAIN map
                  /\ map[KeyOf(Rows[i])][f] = IF datum.null THEN 0 ELSE datum.v

\* C3: when the source rejects the per-table query the call fails; no map is
\* returned, neither a partial nor an empty one.
C3_RejectedQueryFails ==
    tableSource.kind = "error" =>
        /\ tpc \in {"idle", "failed"}
        /\ tableResult = {}

\* Witness of C3: the query was rejected and the call has failed.
C3_Witness ==
    /\ tableSource.kind = "error"
    /\ tpc = "failed"
    /\ tableResult = {}

\* C6: when the per-table query runs and returns zero rows, the call does not
\* fail; it goes on to return, and what it returns is the empty map.
C6_NoTablesEmptyMap ==
    (tableSource.kind = "rows" /\ Rows = << >>) =>
        /\ tpc # "failed"
        /\ tpc = "iterating" => ENABLED TableReturn
        /\ tpc = "returned" => tableResult = {EmptyFn}
        /\ \A map \in tableResult : DOMAIN map = {}

\* Witness of C6: zero rows came back and the empty map was returned.
C6_Witness ==
    /\ tableSource.kind = "rows"
    /\ Rows = << >>
    /\ tpc = "returned"
    /\ tableResult = {EmptyFn}

\* C10: when a row lacks its schema or its table name the call fails: the
\* loop never gets past that row and no map is returned, whatever rows come
\* before or after it.
C10_MalformedRowFails ==
    \A i \in DOMAIN Rows :
        ~WellIdentified(Rows[i]) =>
            /\ tpc # "returned"
            /\ tableResult = {}
            /\ pos < i
            /\ (tpc = "iterating" /\ pos = i - 1) => ~ENABLED TableReturn

\* Witness of C10: a well-formed row was put in the map, the next row has no
\* table name, the call has failed and returned nothing.
C10_Witness ==
    /\ tpc = "failed"
    /\ Len(Rows) = 2
    /\ WellIdentified(Rows[1])
    /\ ~WellIdentified(Rows[2])
    /\ DOMAIN table_stats = {KeyOf(Rows[1])}
    /\ tableResult = {}

\* One entry per row: the rows' keys differ pairwise, the map has as many keys
\* as there are rows, and every row's TableStats is in the map under its key.
OneEntryPerRow(map) ==
    /\ \A i, j \in DOMAIN Rows : i # j => KeyOf(Rows[i]) # KeyOf(Rows[j])
    /\ Cardinality(DOMAIN map) = Len(Rows)
    /\ \A i \in DOMAIN Rows :
          /\ KeyOf(Rows[i]) \in DOMAIN map
          /\ map[KeyOf(Rows[i])] = table_stats_of(Rows[i])

\* C5 as stated: rows with pairwise distinct (schema, table) always give a
\* returned map with one entry per row, also when names contain a dot.
C5_DistinctPairsDistinctKeys ==
    DistinctTables(Rows) => \A map \in tableResult : OneEntryPerRow(map)

\* No schema name of the result set holds a dot, or no table name does.
DotsOnOneSideOnly ==
    \/ \A i \in DOMAIN Rows : ~HasDot(Rows[i].schemaname.v)
    \/ \A i \in DOMAIN Rows : ~HasDot(Rows[i].relname.v)

\* C5 as amended: rows with pairwise distinct (schema, table) give a returned
\* map with one entry per row, provided no schema name of the result set
\* contains a dot or no table name of it does.
C5_DistinctKeysWithoutDots ==
    (DistinctTables(Rows) /\ DotsOnOneSideOnly) =>
        \A map \in tableResult : OneEntryPerRow(map)

\* Witness of C5 as amended: two tables of one schema, with dots in their
\* names, are returned under two keys.
C5_Witness ==
    /\ tpc = "returned"
    /\ Len(Rows) = 2
    /\ DistinctTables(Rows)
    /\ DotsOnOneSideOnly
    /\ \E i \in DOMAIN Rows : HasDot(Rows[i].relname.v)
    /\ \E map \in tableResult : Cardinality(DOMAIN map) = 2
====
